---------------------------- MODULE Spec2Model ----------------------------
(***************************************************************************)
(* work-pulse: activity ledger, category reconciliation, CSV import and    *)
(* daily / weekly reports.                                                 *)
(*                                                                         *)
(* Dates are day numbers counted from 1 January of BaseYear, times are     *)
(* seconds since midnight, durations are signed seconds.  Identifiers      *)
(* (Uuid::new_v4) are drawn from two counters, so a new identifier never   *)
(* equals one handed out before.  An Option is a set with at most one      *)
(* element.  A table of the relational backend is the sequence of its rows *)
(* in insertion order.                                                     *)
(***************************************************************************)
EXTENDS Integers, Sequences, FiniteSets, TLC

VARIABLES backend, activities, categories, nextActivityId, nextCategoryId,
          last, last2, threads, locks

vars == <<backend, activities, categories, nextActivityId, nextCategoryId,
          last, last2, threads, locks>>

-----------------------------------------------------------------------------
(* Bounds of the model                                                     *)

MaxActivityId == 3
MaxCategoryId == 3
MaxRows == 2
MaxThreads == 2

-----------------------------------------------------------------------------
(* Program constants                                                       *)

WeekDays == 7

(* the years an import is run for; day 0 is 1 January of the first one     *)
ImportYears == {2023}
BaseYear == CHOOSE y \in ImportYears : \A z \in ImportYears : y <= z

Backends == {"in_memory", "psql"}

NoneOpt == {}
Some(x) == {x}
Unwrap(o) == CHOOSE x \in o : TRUE

-----------------------------------------------------------------------------
(* Generic sequence helpers                                                *)

Range(s) == {s[i] : i \in 1..Len(s)}

RemoveAt(s, i) == SubSeq(s, 1, i - 1) \o SubSeq(s, i + 1, Len(s))

RECURSIVE SumSeq(_)
SumSeq(s) == IF s = <<>> THEN 0 ELSE Head(s) + SumSeq(Tail(s))

MinOf(S) == CHOOSE x \in S : \A y \in S : x <= y
MaxOf(S) == CHOOSE x \in S : \A y \in S : x >= y

(* iter().position(..) / iter().find(..) on the id or the name: the index  *)
(* of the first match, 0 if there is none                                  *)
PositionById(s, id) ==
    IF \E i \in 1..Len(s) : s[i].id = id
    THEN MinOf({i \in 1..Len(s) : s[i].id = id})
    ELSE 0

PositionByName(s, name) ==
    IF \E i \in 1..Len(s) : s[i].name = name
    THEN MinOf({i \in 1..Len(s) : s[i].name = name})
    ELSE 0

-----------------------------------------------------------------------------
(* Entities                                                                *)

Activity(id, date, start_time, end_time, accounting_category_id, task) ==
    [id |-> id, date |-> date, start_time |-> start_time,
     end_time |-> end_time, accounting_category_id |-> accounting_category_id,
     task |-> task]

\* mutant: the end time alone
duration_IgnoresStart(a) == IF a.end_time # NoneOpt THEN Unwrap(a.end_time) ELSE 0

duration(a) ==
    IF a.end_time # NoneOpt THEN Unwrap(a.end_time) - a.start_time ELSE 0

AccountingCategory(id, name) == [id |-> id, name |-> name]


-----------------------------------------------------------------------------
(* Activities repository, in-memory backend: a Vec of records              *)

get_all(acts) == acts

\* mutant: no filter on the date
get_by_date_Unfiltered(acts, date) == acts

get_by_date(acts, date) == SelectSeq(acts, LAMBDA r : r.date = date)

\* mutant: the end of the range is excluded
get_by_date_range_ExclusiveEnd(acts, start, end) ==
    SelectSeq(acts, LAMBDA r : r.date >= start /\ r.date < end)

get_by_date_range(acts, start, end) ==
    SelectSeq(acts, LAMBDA r : r.date >= start /\ r.date <= end)

add(acts, activity) == Append(acts, activity)

InMemoryUpdate(acts, activity) ==
    LET i == PositionById(acts, activity.id)
    IN  IF i # 0
        THEN [ok |-> TRUE, acts |-> [acts EXCEPT ![i] = activity]]
        ELSE [ok |-> FALSE, acts |-> acts]

InMemoryDelete(acts, id) ==
    LET index == PositionById(acts, id)
    IN  IF index # 0
        THEN [ok |-> TRUE, acts |-> RemoveAt(acts, index)]
        ELSE [ok |-> FALSE, acts |-> acts]

(* The in-memory delete_all and both delete_by_date_range are not part of  *)
(* the sources at hand; they follow the repository contract.               *)
InMemoryDeleteAll(acts) == <<>>

\* mutant: the end of the range is kept
delete_by_date_range_ExclusiveEnd(acts, start, end) ==
    LET kept == SelectSeq(acts, LAMBDA r : ~(r.date >= start /\ r.date < end))
    IN  [count |-> Len(acts) - Len(kept), acts |-> kept]

delete_by_date_range(acts, start, end) ==
    LET kept == SelectSeq(acts, LAMBDA r : ~(r.date >= start /\ r.date <= end))
    IN  [count |-> Len(acts) - Len(kept), acts |-> kept]

-----------------------------------------------------------------------------
(* Activities repository, relational backend: one SQL statement each       *)

(* UPDATE activities SET ... WHERE id = $6: Ok(()) whatever the row count  *)
PsqlUpdate(acts, activity) ==
    [ok |-> TRUE,
     acts |-> [i \in DOMAIN acts |->
                 IF acts[i].id = activity.id THEN activity ELSE acts[i]]]

(* DELETE FROM activities WHERE id = $1: Ok(()) whatever the row count     *)
PsqlDelete(acts, id) ==
    [ok |-> TRUE, acts |-> SelectSeq(acts, LAMBDA r : r.id # id)]

(* mutant: the DELETE removes nothing                                      *)
PsqlDeleteAll_KeepsRows(acts) == acts

(* DELETE FROM activities                                                  *)
PsqlDeleteAll(acts) == <<>>

-----------------------------------------------------------------------------
(* The backend chosen at start-up                                          *)

RepoUpdate(b, acts, activity) ==
    IF b = "in_memory" THEN InMemoryUpdate(acts, activity)
    ELSE PsqlUpdate(acts, activity)

RepoDelete(b, acts, id) ==
    IF b = "in_memory" THEN InMemoryDelete(acts, id) ELSE PsqlDelete(acts, id)

RepoDeleteAll(b, acts) ==
    IF b = "in_memory" THEN InMemoryDeleteAll(acts) ELSE PsqlDeleteAll(acts)

-----------------------------------------------------------------------------
(* Categories repository                                                   *)

CategoryAdd(cats, category) == Append(cats, category)

(* In-memory: the future returned by self.add(..) is dropped without being *)
(* awaited, so its body (the push) never runs; the new category is         *)
(* returned to the caller only.                                            *)
InMemoryGetOrCreateByName(cats, name, fresh) ==
    LET i == PositionByName(cats, name)
    IN  IF i # 0
        THEN [category |-> cats[i], cats |-> cats, created |-> FALSE]
        ELSE [category |-> AccountingCategory(fresh, name), cats |-> cats,
              created |-> TRUE]

(* Relational: SELECT ... WHERE name = $1 (fetch_optional: the first row), *)
(* else INSERT, awaited.                                                   *)
PsqlLookupByName(cats, name) ==
    LET i == PositionByName(cats, name)
    IN  IF i # 0 THEN Some(cats[i]) ELSE NoneOpt

PsqlGetOrCreateByName(cats, name, fresh) ==
    LET row == PsqlLookupByName(cats, name)
    IN  IF row # NoneOpt
        THEN [category |-> Unwrap(row), cats |-> cats, created |-> FALSE]
        ELSE [category |-> AccountingCategory(fresh, name),
              cats |-> CategoryAdd(cats, AccountingCategory(fresh, name)),
              created |-> TRUE]

get_or_create_by_name(b, cats, name, fresh) ==
    IF b = "in_memory" THEN InMemoryGetOrCreateByName(cats, name, fresh)
    ELSE PsqlGetOrCreateByName(cats, name, fresh)

CategoryUpdateRepo(b, cats, category) ==
    IF b = "in_memory"
    THEN LET i == PositionById(cats, category.id)
         IN  IF i # 0
             THEN [ok |-> TRUE, cats |-> [cats EXCEPT ![i] = category]]
             ELSE [ok |-> FALSE, cats |-> cats]
    ELSE [ok |-> TRUE,
          cats |-> [i \in DOMAIN cats |->
                      IF cats[i].id = category.id THEN category ELSE cats[i]]]

CategoryDeleteRepo(b, cats, id) ==
    IF b = "in_memory"
    THEN LET pos == PositionById(cats, id)
         IN  IF pos # 0
             THEN [ok |-> TRUE, cats |-> RemoveAt(cats, pos)]
             ELSE [ok |-> FALSE, cats |-> cats]
    ELSE [ok |-> TRUE, cats |-> SelectSeq(cats, LAMBDA r : r.id # id)]

CountNamed(cats, name) == Cardinality({i \in 1..Len(cats) : cats[i].name = name})

-----------------------------------------------------------------------------
(* CSV importer.  A date cell "dd.mm." is the pair <<dd, mm>>, a time cell *)
(* "HH:MM" the pair <<HH, MM>>; a row whose CW cell is no u8 does not      *)
(* deserialize.                                                            *)

IsLeapYear(y) == (y % 4 = 0 /\ y % 100 # 0) \/ y % 400 = 0

DaysInMonth(m, y) ==
    IF m = 2 THEN (IF IsLeapYear(y) THEN 29 ELSE 28)
    ELSE IF m \in {4, 6, 9, 11} THEN 30 ELSE 31

DaysInYear(y) == IF IsLeapYear(y) THEN 366 ELSE 365

RECURSIVE DaysBeforeYear(_)
DaysBeforeYear(y) ==
    IF y <= BaseYear THEN 0 ELSE DaysInYear(y - 1) + DaysBeforeYear(y - 1)

RECURSIVE DaysBeforeMonth(_, _)
DaysBeforeMonth(m, y) ==
    IF m <= 1 THEN 0 ELSE DaysInMonth(m - 1, y) + DaysBeforeMonth(m - 1, y)

(* NaiveDate::parse_from_str(date + year, "%d.%m.%Y"), then                *)
(* format("%Y-%m-%d"): the ISO text as a record, NoneOpt for ParseError    *)
convert_date_format(date, year) ==
    LET d == date[1]
        m == date[2]
    IN  IF m >= 1 /\ m <= 12 /\ d >= 1 /\ d <= DaysInMonth(m, year)
        THEN Some([year |-> year, month |-> m, day |-> d])
        ELSE NoneOpt

(* "yyyy-mm-dd".parse::<NaiveDate>()                                       *)
ParseIsoDate(iso) ==
    DaysBeforeYear(iso.year) + DaysBeforeMonth(iso.month, iso.year) + iso.day - 1

(* "HH:MM".parse::<NaiveTime>()                                            *)
ParseTime(cell) ==
    IF cell[1] >= 0 /\ cell[1] <= 23 /\ cell[2] >= 0 /\ cell[2] <= 59
    THEN Some(cell[1] * 3600 + cell[2] * 60)
    ELSE NoneOpt

(* mutant: rows that do not deserialize are skipped                        *)
CsvDeserialize_SkipsBadRows(rows) ==
    Some(SelectSeq(rows, LAMBDA r : r.cw >= 0 /\ r.cw <= 255))

(* csv_reader.deserialize(): every row must deserialize                    *)
CsvDeserialize(rows) ==
    IF \A i \in 1..Len(rows) : rows[i].cw >= 0 /\ rows[i].cw <= 255
    THEN Some(rows) ELSE NoneOpt

(* The per-record loop of CsvActivitiesImporter::import                    *)
RECURSIVE ImportLoop(_, _, _, _, _, _, _)
ImportLoop(b, records, year, cats, freshCat, freshAct, acc) ==
    IF records = <<>>
    THEN [err |-> FALSE, activities |-> acc, cats |-> cats,
          freshCat |-> freshCat, freshAct |-> freshAct]
    ELSE
      LET rec == Head(records)
          date == convert_date_format(rec.date, year)
      IN  IF date = NoneOpt
          THEN [err |-> TRUE, activities |-> <<>>, cats |-> cats,
                freshCat |-> freshCat, freshAct |-> freshAct]
          ELSE
            LET goc == get_or_create_by_name(b, cats, rec.pam_category, freshCat)
                freshCat2 == IF goc.created THEN freshCat + 1 ELSE freshCat
                check_in == ParseTime(rec.check_in)
                check_out == ParseTime(rec.check_out)
            IN  IF check_in = NoneOpt
                THEN [err |-> TRUE, activities |-> <<>>, cats |-> goc.cats,
                      freshCat |-> freshCat2, freshAct |-> freshAct]
                ELSE IF check_out = NoneOpt
                THEN [err |-> TRUE, activities |-> <<>>, cats |-> goc.cats,
                      freshCat |-> freshCat2, freshAct |-> freshAct + 1]
                ELSE ImportLoop(b, Tail(records), year, goc.cats, freshCat2,
                                freshAct + 1,
                                Append(acc,
                                       Activity(freshAct,
                                                ParseIsoDate(Unwrap(date)),
                                                Unwrap(check_in), check_out,
                                                goc.category.id, rec.task)))

CsvActivitiesImporter(b, rows, year, cats, freshCat, freshAct) ==
    LET records == CsvDeserialize(rows)
    IN  IF records = NoneOpt
        THEN [err |-> TRUE, activities |-> <<>>, cats |-> cats,
              freshCat |-> freshCat, freshAct |-> freshAct]
        ELSE ImportLoop(b, Unwrap(records), year, cats, freshCat, freshAct, <<>>)

-----------------------------------------------------------------------------
(* ActivitiesList::import after the importer returned its batch            *)

ReplaceModes == {"None", "All", "ImportDateRange"}

BatchDates(batch) == {batch[i].date : i \in 1..Len(batch)}

(* mutant: ImportDateRange clears the whole ledger                         *)
ReplaceExisting_RangeDeletesAll(b, acts, batch, mode) ==
    IF mode = "None" THEN [err |-> FALSE, acts |-> acts]
    ELSE IF mode = "All" THEN [err |-> FALSE, acts |-> RepoDeleteAll(b, acts)]
    ELSE IF batch = <<>> THEN [err |-> TRUE, acts |-> acts]
    ELSE [err |-> FALSE, acts |-> RepoDeleteAll(b, acts)]

(* mutant: an empty batch under ImportDateRange deletes nothing and passes *)
ReplaceExisting_EmptyBatchPasses(b, acts, batch, mode) ==
    IF mode = "None" THEN [err |-> FALSE, acts |-> acts]
    ELSE IF mode = "All" THEN [err |-> FALSE, acts |-> RepoDeleteAll(b, acts)]
    ELSE IF batch = <<>> THEN [err |-> FALSE, acts |-> acts]
    ELSE [err |-> FALSE,
          acts |-> delete_by_date_range(acts, MinOf(BatchDates(batch)),
                                        MaxOf(BatchDates(batch))).acts]

(* mutant: None deletes the span of the batch like ImportDateRange         *)
ReplaceExisting_NoneDeletesRange(b, acts, batch, mode) ==
    IF mode = "All" THEN [err |-> FALSE, acts |-> RepoDeleteAll(b, acts)]
    ELSE IF batch = <<>> THEN [err |-> mode # "None", acts |-> acts]
    ELSE [err |-> FALSE,
          acts |-> delete_by_date_range(acts, MinOf(BatchDates(batch)),
                                        MaxOf(BatchDates(batch))).acts]

(* the match on replace_existing: the ledger after the deletion phase      *)
ReplaceExisting(b, acts, batch, mode) ==
    IF mode = "None" THEN [err |-> FALSE, acts |-> acts]
    ELSE IF mode = "All" THEN [err |-> FALSE, acts |-> RepoDeleteAll(b, acts)]
    ELSE IF batch = <<>> THEN [err |-> TRUE, acts |-> acts]
    ELSE [err |-> FALSE,
          acts |-> delete_by_date_range(acts, MinOf(BatchDates(batch)),
                                        MaxOf(BatchDates(batch))).acts]

(* for activity in activities { repo.add(activity) }                       *)
RECURSIVE AddAll(_, _)
AddAll(acts, batch) ==
    IF batch = <<>> THEN acts ELSE AddAll(add(acts, Head(batch)), Tail(batch))

(* mutant: the batch is added first and the deletion runs afterwards        *)
import_InsertsThenDeletes(b, acts, cats, freshCat, freshAct, rows, year, mode) ==
    LET imp == CsvActivitiesImporter(b, rows, year, cats, freshCat, freshAct)
        rep == ReplaceExisting(b, AddAll(acts, imp.activities), imp.activities, mode)
    IN  IF imp.err
        THEN [res |-> <<"ParseError">>, acts |-> acts, cats |-> imp.cats,
              freshCat |-> imp.freshCat, freshAct |-> imp.freshAct]
        ELSE IF rep.err
        THEN [res |-> <<"NoActivitiesToImport">>, acts |-> acts,
              cats |-> imp.cats, freshCat |-> imp.freshCat,
              freshAct |-> imp.freshAct]
        ELSE [res |-> <<"Ok">>, acts |-> rep.acts,
              cats |-> imp.cats, freshCat |-> imp.freshCat,
              freshAct |-> imp.freshAct]

import(b, acts, cats, freshCat, freshAct, rows, year, mode) ==
    LET imp == CsvActivitiesImporter(b, rows, year, cats, freshCat, freshAct)
        rep == ReplaceExisting(b, acts, imp.activities, mode)
    IN  IF imp.err
        THEN [res |-> <<"ParseError">>, acts |-> acts, cats |-> imp.cats,
              freshCat |-> imp.freshCat, freshAct |-> imp.freshAct]
        ELSE IF rep.err
        THEN [res |-> <<"NoActivitiesToImport">>, acts |-> acts,
              cats |-> imp.cats, freshCat |-> imp.freshCat,
              freshAct |-> imp.freshAct]
        ELSE [res |-> <<"Ok">>, acts |-> AddAll(rep.acts, imp.activities),
              cats |-> imp.cats, freshCat |-> imp.freshCat,
              freshAct |-> imp.freshAct]

-----------------------------------------------------------------------------
(* Inputs                                                                  *)

DateCells == {<<27, 2>>, <<28, 2>>, <<1, 3>>, <<29, 2>>}
TimeIn == <<9, 0>>
TimeOut == <<10, 0>>
BadTime == <<25, 0>>
CategoryNames == {"Dev", "Meeting"}
Tasks == {"Coding", "Review"}

Dates ==
    {ParseIsoDate(Unwrap(convert_date_format(c, y))) :
        <<c, y>> \in {x \in DateCells \X ImportYears :
                        convert_date_format(x[1], x[2]) # NoneOpt}}

StartTime == Unwrap(ParseTime(TimeIn))
EndTimes == {NoneOpt, ParseTime(TimeOut)}

Row(cw, date, check_in, check_out, pam_category, task) ==
    [cw |-> cw, date |-> date, check_in |-> check_in, check_out |-> check_out,
     pam_category |-> pam_category, task |-> task]

(* well-formed rows, and one row for each way a row can be malformed       *)
GoodRows(names) ==
    {Row(11, c, TimeIn, TimeOut, n, "Coding") :
        <<c, n>> \in {<<27, 2>>, <<1, 3>>} \X names}
BadRows ==
    {Row(300, <<27, 2>>, TimeIn, TimeOut, "Dev", "Coding"),
     Row(11, <<29, 2>>, TimeIn, TimeOut, "Dev", "Coding"),
     Row(11, <<27, 2>>, BadTime, TimeOut, "Dev", "Coding"),
     Row(11, <<27, 2>>, TimeIn, BadTime, "Dev", "Coding")}

SeqsUpTo(S, n) == UNION {[1..k -> S] : k \in 0..n}

Sources(names) == SeqsUpTo(GoodRows(names) \cup BadRows, MaxRows)

LedgerSources == Sources({"Dev"})

-----------------------------------------------------------------------------
(* State machine                                                           *)

NoOp == [op |-> "init", before |-> <<>>, arg |-> <<>>, res |-> <<>>]

Threads == 1..MaxThreads

\* a request that has not started: no name, nothing looked up, no result
IdleThread == [pc |-> "idle", name |-> "", found |-> NoneOpt, res |-> NoneOpt,
               overlapped |-> FALSE, op |-> "", arg |-> <<>>, batch |-> <<>>,
               expect |-> <<>>, torn |-> FALSE]

\* tokio mutexes around the two repositories and around the state of the
\* activities service; 0 means free
NoLocks == [activities |-> 0, categories |-> 0, service |-> 0]

Init ==
    /\ backend \in Backends
    /\ activities = <<>>
    /\ categories = <<>>
    /\ nextActivityId = 1
    /\ nextCategoryId = 1
    /\ last = NoOp
    /\ last2 = NoOp
    /\ threads = [t \in Threads |-> IdleThread]
    /\ locks = NoLocks

\* mutant: record hands out the same identifier again
Record_ReusesId(date, start_time, end_time, accounting_category_id, task) ==
    LET activity == [id |-> nextActivityId, date |-> date, start_time |-> start_time,
                     end_time |-> end_time,
                     accounting_category_id |-> accounting_category_id,
                     task |-> task]
    IN  /\ Len(activities) < MaxActivityId
        /\ activities' = Append(activities, activity)
        /\ last' = [op |-> "record", before |-> activities, arg |-> activity,
                    res |-> activity]
        /\ UNCHANGED <<threads, locks, backend, categories, nextActivityId,
                       nextCategoryId, last2>>

(* ActivitiesList::record                                                  *)
Record(date, start_time, end_time, accounting_category_id, task) ==
    LET activity == Activity(nextActivityId, date, start_time, end_time,
                             accounting_category_id, task)
    IN  /\ nextActivityId <= MaxActivityId
        /\ activities' = add(activities, activity)
        /\ nextActivityId' = nextActivityId + 1
        /\ last' = [op |-> "record", before |-> activities, arg |-> activity,
                    res |-> activity]
        /\ UNCHANGED <<threads, locks, backend, categories, nextCategoryId, last2>>

(* ActivitiesList::update                                                  *)
Update(activity) ==
    LET rep == RepoUpdate(backend, activities, activity)
    IN  /\ activities' = rep.acts
        /\ last' = [op |-> "update", before |-> activities, arg |-> activity,
                    res |-> IF rep.ok THEN <<"Ok">>
                            ELSE <<"NotFound", activity.id>>]
        /\ UNCHANGED <<threads, locks, backend, categories, nextActivityId, nextCategoryId,
                       last2>>

(* ActivitiesList::delete                                                  *)
Delete(activity_id) ==
    LET rep == RepoDelete(backend, activities, activity_id)
    IN  /\ activities' = rep.acts
        /\ last' = [op |-> "delete", before |-> activities,
                    arg |-> activity_id,
                    res |-> IF rep.ok THEN <<"Ok">>
                            ELSE <<"NotFound", activity_id>>]
        /\ UNCHANGED <<threads, locks, backend, categories, nextActivityId, nextCategoryId,
                       last2>>

(* ActivitiesList::delete_by_date_range                                    *)
DeleteByDateRange(start_date, end_date) ==
    LET rep == delete_by_date_range(activities, start_date, end_date)
    IN  /\ activities' = rep.acts
        /\ last' = [op |-> "delete_by_date_range", before |-> activities,
                    arg |-> <<start_date, end_date>>,
                    res |-> <<"Ok", rep.count>>]
        /\ UNCHANGED <<threads, locks, backend, categories, nextActivityId, nextCategoryId,
                       last2>>

(* ActivitiesList::import with a CsvActivitiesImporter                     *)
Import(rows, year, replace_existing) ==
    \E out \in {import(backend, activities, categories, nextCategoryId,
                       nextActivityId, rows, year, replace_existing)} :
        /\ out.freshAct <= MaxActivityId + 1
        /\ out.freshCat <= MaxCategoryId + 1
        /\ activities' = out.acts
        /\ categories' = out.cats
        /\ nextActivityId' = out.freshAct
        /\ nextCategoryId' = out.freshCat
        /\ last' = [op |-> "import", before |-> activities,
                    arg |-> [rows |-> rows, year |-> year,
                             mode |-> replace_existing,
                             categories |-> categories],
                    res |-> out.res]
        /\ UNCHANGED <<threads, locks, backend, last2>>

(* The ledger under record and import                                     *)
Next ==
    \/ \E d \in Dates :
          Record(d, StartTime, ParseTime(TimeOut), 1, "Coding")
    \/ \E rows \in LedgerSources, y \in ImportYears, m \in ReplaceModes :
          Import(rows, y, m)

Spec == Init /\ [][Next]_vars

(* The ledger under record, update and delete                              *)
NextCrud ==
    \/ \E d \in Dates, e \in EndTimes :
          Record(d, StartTime, e, 1, "Coding")
    \/ \E id \in 1..MaxActivityId, d \in Dates :
          Update(Activity(id, d, StartTime, NoneOpt, 2, "Review"))
    \/ \E id \in 1..MaxActivityId : Delete(id)
    \/ \E s \in Dates, e \in Dates : DeleteByDateRange(s, e)

SpecCrud == Init /\ [][NextCrud]_vars

-----------------------------------------------------------------------------
(* What a row stands for, read off the row itself                          *)

RowDate(row, year) == ParseIsoDate(Unwrap(convert_date_format(row.date, year)))

RowMalformed(row, year) ==
    \/ ~(row.cw \in 0..255)
    \/ convert_date_format(row.date, year) = NoneOpt
    \/ ParseTime(row.check_in) = NoneOpt
    \/ ParseTime(row.check_out) = NoneOpt

Malformed(rows, year) == \E i \in 1..Len(rows) : RowMalformed(rows[i], year)

RowActivityMatches(a, row, year) ==
    /\ a.date = RowDate(row, year)
    /\ a.start_time = Unwrap(ParseTime(row.check_in))
    /\ a.end_time = ParseTime(row.check_out)
    /\ a.task = row.task

Ids(acts) == {acts[i].id : i \in 1..Len(acts)}

ImportDone(mode) ==
    /\ last.op = "import"
    /\ last.arg.mode = mode
    /\ last.res = <<"Ok">>

(* C3: after a successful import with ReplaceMode::All the ledger is       *)
(* exactly the imported batch, in batch order, and holds none of the       *)
(* activities that existed before (empty for an empty batch).              *)
C3_ReplaceAllLeavesOnlyBatch ==
    ImportDone("All") =>
        /\ Len(activities) = Len(last.arg.rows)
        /\ \A i \in 1..Len(activities) :
              /\ RowActivityMatches(activities[i], last.arg.rows[i], last.arg.year)
              /\ activities[i].id \notin Ids(last.before)

C3_Witness ==
    /\ ImportDone("All")
    /\ last.before # <<>>
    /\ Len(last.arg.rows) >= 2
    /\ last.arg.rows[1] # last.arg.rows[2]

(* C4: after a successful import with ReplaceMode::ImportDateRange of a    *)
(* batch spanning [min, max], the ledger is the previous activities dated  *)
(* before min or after max, unchanged and in order, followed by the batch; *)
(* every previous activity dated within [min, max] is gone.                *)
C4_DateRangeReplacesOnlySpan ==
    ImportDone("ImportDateRange") =>
        LET rows == last.arg.rows
            dates == {RowDate(rows[i], last.arg.year) : i \in 1..Len(rows)}
            min == MinOf(dates)
            max == MaxOf(dates)
            kept == SelectSeq(last.before, LAMBDA a : a.date < min \/ a.date > max)
            n == Len(kept)
        IN  /\ rows # <<>>
            /\ Len(activities) = n + Len(rows)
            /\ SubSeq(activities, 1, n) = kept
            /\ \A i \in 1..Len(rows) :
                  RowActivityMatches(activities[n + i], rows[i], last.arg.year)
            /\ \A j \in 1..Len(last.before) :
                  (last.before[j].date >= min /\ last.before[j].date <= max)
                      => last.before[j].id \notin Ids(activities)

(* an activity outside the span survives while one inside it is deleted    *)
C4_Witness ==
    /\ ImportDone("ImportDateRange")
    /\ \E j \in 1..Len(last.before) : last.before[j].id \in Ids(activities)
    /\ \E j \in 1..Len(last.before) : last.before[j].id \notin Ids(activities)

(* an activity strictly inside the span, on a date of no batch row, is     *)
(* deleted                                                                 *)
C4_WitnessBetween ==
    /\ ImportDone("ImportDateRange")
    /\ \E j \in 1..Len(last.before) :
          /\ last.before[j].id \notin Ids(activities)
          /\ \A i \in 1..Len(last.arg.rows) :
                RowDate(last.arg.rows[i], last.arg.year) # last.before[j].date

(* C5: an import whose source has a malformed row fails with ParseError    *)
(* under every replace mode and leaves the ledger as it was.               *)
C5_ParseErrorLeavesLedger ==
    (last.op = "import" /\ Malformed(last.arg.rows, last.arg.year)) =>
        /\ last.res = <<"ParseError">>
        /\ activities = last.before

(* a valid first row, a malformed second one, a ledger that All would clear *)
C5_Witness ==
    /\ last.op = "import"
    /\ last.arg.mode = "All"
    /\ Len(last.arg.rows) = 2
    /\ ~RowMalformed(last.arg.rows[1], last.arg.year)
    /\ RowMalformed(last.arg.rows[2], last.arg.year)
    /\ last.before # <<>>

(* C6: an empty batch under ImportDateRange fails with                     *)
(* NoActivitiesToImport before anything is deleted; under None and All an  *)
(* empty batch does not produce this error.                                *)
C6_EmptyBatch ==
    (last.op = "import" /\ last.arg.rows = <<>>) =>
        IF last.arg.mode = "ImportDateRange"
        THEN last.res = <<"NoActivitiesToImport">> /\ activities = last.before
        ELSE last.res = <<"Ok">>

C6_Witness ==
    /\ last.op = "import"
    /\ last.arg.rows = <<>>
    /\ last.arg.mode = "ImportDateRange"
    /\ last.before # <<>>
    /\ activities = last.before

-----------------------------------------------------------------------------
(* C9: deleting an identifier that is not in the ledger fails with         *)
(* NotFound(id) and leaves the ledger unchanged; deleting one that is      *)
(* present succeeds, removes that activity and leaves the others and their *)
(* order unchanged.                                                        *)
C9_DeleteByIdentifier ==
    last.op = "delete" =>
        LET id == last.arg
            i == PositionById(last.before, id)
        IN  IF i = 0
            THEN /\ last.res = <<"NotFound", id>>
                 /\ activities = last.before
            ELSE /\ last.res = <<"Ok">>
                 /\ id \notin Ids(activities)
                 /\ activities = RemoveAt(last.before, i)

(* the same, on the in-memory backend alone                                *)
C9_DeleteByIdentifierInMemory == backend = "in_memory" => C9_DeleteByIdentifier

(* C10: updating an activity whose identifier is in the ledger replaces    *)
(* that one entry in place and changes no other entry nor the entry count; *)
(* updating one whose identifier is absent fails with NotFound(id) and     *)
(* changes nothing.                                                        *)
C10_UpdateByIdentifier ==
    last.op = "update" =>
        LET a == last.arg
            i == PositionById(last.before, a.id)
        IN  IF i = 0
            THEN /\ last.res = <<"NotFound", a.id>>
                 /\ activities = last.before
            ELSE /\ last.res = <<"Ok">>
                 /\ Len(activities) = Len(last.before)
                 /\ activities[i] = a
                 /\ \A j \in 1..Len(activities) :
                       j # i => activities[j] = last.before[j]

(* the same, on the in-memory backend alone                                *)
C10_UpdateByIdentifierInMemory == backend = "in_memory" => C10_UpdateByIdentifier

-----------------------------------------------------------------------------
(* Reports (use_cases/daily_report.rs, use_cases/weekly_report.rs).        *)
(* Both read the ledger through get_by_date / get_by_date_range, which     *)
(* include both ends of the range on either backend (Vec filter with       *)
(* >= and <=, SQL BETWEEN).                                                *)

\* week_end = week_start + Duration::days(7)
WeekEndOffset == 7

calculate_activity_duration(activity) ==
    IF activity.end_time # NoneOpt
    THEN Unwrap(activity.end_time) - activity.start_time
    ELSE 0

DailyReport(date, acts) ==
    LET found == get_by_date(acts, date)
    IN  [date           |-> date,
         activities     |-> found,
         total_duration |->
             SumSeq([i \in 1..Len(found) |-> calculate_activity_duration(found[i])])]

\* *entry += duration, with the entry read as the second argument's base
EntryAddAssign_Overwrites(entry, d) == d

EntryAddAssign(entry, d) == entry + d

\* the HashMap built by the loop over the activities: a function from the
\* category identifiers seen so far to their accumulated duration
RECURSIVE category_durations(_, _)
category_durations(acts, map) ==
    IF acts = <<>> THEN map
    ELSE LET activity    == Head(acts)
             category_id == activity.accounting_category_id
             entry       == IF category_id \in DOMAIN map THEN map[category_id] ELSE 0
         IN  category_durations(Tail(acts),
                 [c \in DOMAIN map \cup {category_id} |->
                     IF c = category_id
                     THEN EntryAddAssign(entry, duration(activity))
                     ELSE map[c]])

EmptyMap == [c \in {} |-> 0]

\* the Vec<(category, duration)> a HashMap can be drained into: one pair per
\* key, in any order
HashMapDrains(map) ==
    {v \in [1..Cardinality(DOMAIN map) -> (DOMAIN map) \X {map[c] : c \in DOMAIN map}] :
        /\ \A i \in DOMAIN v : v[i][2] = map[v[i][1]]
        /\ \A i, j \in DOMAIN v : v[i][1] = v[j][1] => i = j}

\* mutant: the days are counted from the day after week_start
calculate_daily_durations_per_category_FromNextDay(acts, week_start) ==
    [day \in 1..WeekDays |->
        <<week_start + day,
          category_durations(SelectSeq(acts, LAMBDA a : a.date = week_start + day),
                             EmptyMap)>>]

calculate_daily_durations_per_category(acts, week_start) ==
    [day \in 1..WeekDays |->
        LET day_offset   == day - 1
            current_date == week_start + day_offset
        IN  <<current_date,
              category_durations(SelectSeq(acts, LAMBDA a : a.date = current_date),
                                 EmptyMap)>>]

\* WeeklyReport::new, with the iteration order of the per-category map
\* left to the caller as the drained vector dpc
WeeklyReport(week_start, acts, dpc) ==
    LET week_end == week_start + WeekEndOffset
        found    == get_by_date_range(acts, week_start, week_end)
    IN  [week_start            |-> week_start,
         week_end              |-> week_end,
         activities            |-> found,
         total_duration        |->
             SumSeq([i \in 1..Len(found) |-> duration(found[i])]),
         duration_per_category |-> dpc,
         daily_durations_per_category |->
             calculate_daily_durations_per_category(found, week_start)]

WeeklyCategoryDrains(week_start, acts) ==
    HashMapDrains(category_durations(
        get_by_date_range(acts, week_start, week_start + WeekEndOffset), EmptyMap))

\* the ledger dates the reports are exercised on: Monday 27.02.2023, the
\* Sunday after it and the Monday after that
ReportMonday == CHOOSE d \in Dates : \A z \in Dates : d <= z

ReportDates == {ReportMonday, ReportMonday + 6, ReportMonday + 7}

WeekStarts == {ReportMonday, ReportMonday + 1}

ReportCategoryIds == {1, 2}

GenerateWeeklyReport(week_start) ==
    \E dpc \in WeeklyCategoryDrains(week_start, activities) :
        /\ last' = [op     |-> "weekly_report",
                    before |-> activities,
                    arg    |-> week_start,
                    res    |-> WeeklyReport(week_start, activities, dpc)]
        /\ UNCHANGED <<threads, locks, backend, activities, categories, nextActivityId,
                       nextCategoryId, last2>>

GenerateDailyReport(date) ==
    /\ last' = [op     |-> "daily_report",
                before |-> activities,
                arg    |-> date,
                res    |-> DailyReport(date, activities)]
    /\ UNCHANGED <<threads, locks, backend, activities, categories, nextActivityId,
                   nextCategoryId, last2>>

NextReports ==
    \/ \E d \in ReportDates, e \in EndTimes, c \in ReportCategoryIds :
           Record(d, StartTime, e, c, "Coding")
    \/ \E w \in WeekStarts : GenerateWeeklyReport(w)
    \/ \E d \in ReportDates : GenerateDailyReport(d)

SpecReports == Init /\ [][NextReports]_vars

-----------------------------------------------------------------------------
(* C7: the weekly report's total_duration equals the sum of the daily      *)
(* reports' total_duration over the 7 days week_start .. week_start+6,     *)
(* also when the ledger holds activities dated week_start+7.               *)
C7_WeeklyTotalIsSumOfDailyTotals ==
    last.op = "weekly_report" =>
        last.res.total_duration =
            SumSeq([i \in 1..7 |->
                       DailyReport(last.arg + (i - 1), activities).total_duration])

(* C8: the durations in duration_per_category sum to total_duration, each  *)
(* category identifier appears in it at most once, and each entry is the   *)
(* sum of the durations of the report's activities with that category.     *)
CategoryTotal(acts, category_id) ==
    LET mine == SelectSeq(acts, LAMBDA a : a.accounting_category_id = category_id)
    IN  SumSeq([i \in 1..Len(mine) |-> duration(mine[i])])

C8_DurationPerCategory ==
    last.op = "weekly_report" =>
        LET r   == last.res
            dpc == r.duration_per_category
        IN  /\ SumSeq([i \in 1..Len(dpc) |-> dpc[i][2]]) = r.total_duration
            /\ \A i, j \in 1..Len(dpc) : dpc[i][1] = dpc[j][1] => i = j
            /\ \A i \in 1..Len(dpc) : dpc[i][2] = CategoryTotal(r.activities, dpc[i][1])
            /\ \A k \in 1..Len(r.activities) :
                   \E i \in 1..Len(dpc) :
                       dpc[i][1] = r.activities[k].accounting_category_id

\* a report over two categories, one of them with two activities of
\* non-zero duration
C8_Witness ==
    /\ last.op = "weekly_report"
    /\ Len(last.res.duration_per_category) = 2
    /\ \E i, j \in 1..Len(last.res.activities) :
           /\ i # j
           /\ last.res.activities[i].accounting_category_id =
                  last.res.activities[j].accounting_category_id
           /\ duration(last.res.activities[i]) > 0
           /\ duration(last.res.activities[j]) > 0

-----------------------------------------------------------------------------
(* Category operations: the use case AccountingCategoriesList (create,     *)
(* update, delete) and the repository's get_or_create_by_name, which the   *)
(* importer calls.  last2 keeps the record of the operation before the     *)
(* last one.                                                               *)

CreateCategory(category_name) ==
    /\ nextCategoryId <= MaxCategoryId
    /\ IF CountNamed(categories, category_name) > 0
       THEN /\ last' = [op |-> "create_category", before |-> categories,
                        arg |-> category_name,
                        res |-> <<"AccountingCategoryAlreadyExists", category_name>>]
            /\ UNCHANGED <<categories, nextCategoryId>>
       ELSE LET accounting_category == AccountingCategory(nextCategoryId, category_name)
            IN  /\ categories' = CategoryAdd(categories, accounting_category)
                /\ nextCategoryId' = nextCategoryId + 1
                /\ last' = [op |-> "create_category", before |-> categories,
                            arg |-> category_name,
                            res |-> <<"Ok", accounting_category>>]
    /\ last2' = last
    /\ UNCHANGED <<threads, locks, backend, activities, nextActivityId>>

UpdateCategory(category) ==
    LET out == CategoryUpdateRepo(backend, categories, category)
    IN  /\ categories' = out.cats
        /\ last' = [op |-> "update_category", before |-> categories,
                    arg |-> category,
                    res |-> IF out.ok THEN <<"Ok">> ELSE <<"NotFound", category.id>>]
        /\ last2' = last
        /\ UNCHANGED <<threads, locks, backend, activities, nextActivityId, nextCategoryId>>

DeleteCategory(id) ==
    LET out == CategoryDeleteRepo(backend, categories, id)
    IN  /\ categories' = out.cats
        /\ last' = [op |-> "delete_category", before |-> categories,
                    arg |-> id,
                    res |-> IF out.ok THEN <<"Ok">> ELSE <<"NotFound", id>>]
        /\ last2' = last
        /\ UNCHANGED <<threads, locks, backend, activities, nextActivityId, nextCategoryId>>

GetOrCreateByName(name) ==
    /\ nextCategoryId <= MaxCategoryId
    /\ LET out == get_or_create_by_name(backend, categories, name, nextCategoryId)
       IN  /\ categories' = out.cats
           /\ nextCategoryId' = IF out.created THEN nextCategoryId + 1
                                ELSE nextCategoryId
           /\ last' = [op |-> "get_or_create_by_name", before |-> categories,
                       arg |-> name, res |-> out.category]
    /\ last2' = last
    /\ UNCHANGED <<threads, locks, backend, activities, nextActivityId>>

NextCategories ==
    \/ \E n \in CategoryNames : CreateCategory(n)
    \/ \E id \in 1..MaxCategoryId, n \in CategoryNames :
           UpdateCategory(AccountingCategory(id, n))
    \/ \E id \in 1..MaxCategoryId : DeleteCategory(id)
    \/ \E n \in CategoryNames : GetOrCreateByName(n)

SpecCategories == Init /\ [][NextCategories]_vars

(* C1: from a repository with no category named X, two calls of            *)
(* get_or_create_by_name(X) return the same identifier, and afterwards the *)
(* repository holds exactly one category named X.                          *)
C1_GetOrCreateIdempotent ==
    ( /\ last.op = "get_or_create_by_name"
      /\ last2.op = "get_or_create_by_name"
      /\ last.arg = last2.arg
      /\ CountNamed(last2.before, last2.arg) = 0 )
    => /\ last.res.id = last2.res.id
       /\ CountNamed(categories, last.arg) = 1

(* the same, on the relational backend alone                               *)
C1_GetOrCreateIdempotentPsql == backend = "psql" => C1_GetOrCreateIdempotent

-----------------------------------------------------------------------------
(* Concurrent imports.  Each thread is one import request whose source has *)
(* a single row of category `name`; it is followed up to the end of the    *)
(* importer, one step per await point: the lock of the activities          *)
(* repository (ActivitiesList::import), the lock of the category           *)
(* repository (CsvActivitiesImporter::import), the lookup and the insert   *)
(* of get_or_create_by_name, and the two guards going out of scope.        *)

Active(t) == threads[t].pc \notin {"idle", "done"}

BeginImport(t, name) ==
    /\ threads[t].pc = "idle"
    /\ threads' = [u \in Threads |->
          IF u = t
          THEN [threads[t] EXCEPT !.pc = "lock_activities", !.name = name,
                                  !.overlapped = \E o \in Threads \ {t} : Active(o)]
          ELSE IF Active(u) THEN [threads[u] EXCEPT !.overlapped = TRUE]
          ELSE threads[u]]
    /\ UNCHANGED <<backend, activities, categories, nextActivityId,
                   nextCategoryId, last, last2, locks>>

LockActivities(t) ==
    /\ threads[t].pc = "lock_activities"
    /\ locks.activities = 0
    /\ locks' = [locks EXCEPT !.activities = t]
    /\ threads' = [threads EXCEPT ![t].pc = "lock_categories"]
    /\ UNCHANGED <<backend, activities, categories, nextActivityId,
                   nextCategoryId, last, last2>>

LockCategories(t) ==
    /\ threads[t].pc = "lock_categories"
    /\ locks.categories = 0
    /\ nextCategoryId <= MaxCategoryId
    /\ locks' = [locks EXCEPT !.categories = t]
    /\ threads' = [threads EXCEPT ![t].pc = "lookup"]
    /\ UNCHANGED <<backend, activities, categories, nextActivityId,
                   nextCategoryId, last, last2>>

\* in-memory: self.categories.iter().find(|r| r.name.eq(name))
InMemoryFindByName(cats, name) ==
    LET i == PositionByName(cats, name)
    IN  IF i # 0 THEN Some(cats[i]) ELSE NoneOpt

Lookup(t) ==
    /\ threads[t].pc = "lookup"
    /\ locks.categories = t
    /\ LET found == IF backend = "in_memory"
                    THEN InMemoryFindByName(categories, threads[t].name)
                    ELSE PsqlLookupByName(categories, threads[t].name)
       IN  threads' = [threads EXCEPT
               ![t].found = found,
               ![t].res   = found,
               ![t].pc    = IF found # NoneOpt THEN "unlock_categories"
                            ELSE "insert"]
    /\ UNCHANGED <<backend, activities, categories, nextActivityId,
                   nextCategoryId, last, last2, locks>>

\* the else branch: AccountingCategory::new, then self.add(..), awaited on
\* the relational backend and dropped unpolled on the in-memory one
Insert(t) ==
    /\ threads[t].pc = "insert"
    /\ locks.categories = t
    /\ LET new_category == AccountingCategory(nextCategoryId, threads[t].name)
       IN  /\ categories' = IF backend = "in_memory" THEN categories
                            ELSE CategoryAdd(categories, new_category)
           /\ threads' = [threads EXCEPT ![t].res = Some(new_category),
                                         ![t].pc  = "unlock_categories"]
    /\ nextCategoryId' = nextCategoryId + 1
    /\ UNCHANGED <<backend, activities, nextActivityId, last, last2, locks>>

UnlockCategories(t) ==
    /\ threads[t].pc = "unlock_categories"
    /\ locks.categories = t
    /\ locks' = [locks EXCEPT !.categories = 0]
    /\ threads' = [threads EXCEPT ![t].pc = "unlock_activities"]
    /\ UNCHANGED <<backend, activities, categories, nextActivityId,
                   nextCategoryId, last, last2>>

UnlockActivities(t) ==
    /\ threads[t].pc = "unlock_activities"
    /\ locks.activities = t
    /\ locks' = [locks EXCEPT !.activities = 0]
    /\ threads' = [threads EXCEPT ![t].pc = "done"]
    /\ UNCHANGED <<backend, activities, categories, nextActivityId,
                   nextCategoryId, last, last2>>

NextConcurrent ==
    \/ \E t \in Threads, n \in CategoryNames : BeginImport(t, n)
    \/ \E t \in Threads : LockActivities(t)
    \/ \E t \in Threads : LockCategories(t)
    \/ \E t \in Threads : Lookup(t)
    \/ \E t \in Threads : Insert(t)
    \/ \E t \in Threads : UnlockCategories(t)
    \/ \E t \in Threads : UnlockActivities(t)

SpecConcurrent == Init /\ [][NextConcurrent]_vars

\* the step-wise get_or_create_by_name agrees with the one-step operator
StepwiseAgreesWithGetOrCreate ==
    \A t \in Threads :
        threads[t].pc = "insert" =>
            LET out == get_or_create_by_name(backend, categories,
                                             threads[t].name, nextCategoryId)
            IN  /\ out.created
                /\ out.category = AccountingCategory(nextCategoryId, threads[t].name)

MutualExclusion ==
    \A t, u \in Threads :
        (t # u /\ threads[t].pc \in {"lookup", "insert", "unlock_categories"})
            => threads[u].pc \notin {"lookup", "insert", "unlock_categories"}

(* C2: when callers invoke get_or_create_by_name concurrently with the     *)
(* same name on the same repository, at most one category with that name   *)
(* is created and all callers receive the same identifier.                 *)
Returned(t) == threads[t].pc \in {"unlock_activities", "done"}

C2_ConcurrentGetOrCreate ==
    /\ \A n \in CategoryNames : CountNamed(categories, n) <= 1
    /\ \A t, u \in Threads :
           ( /\ t # u
             /\ Returned(t) /\ Returned(u)
             /\ threads[t].overlapped /\ threads[u].overlapped
             /\ threads[t].name = threads[u].name )
           => Unwrap(threads[t].res).id = Unwrap(threads[u].res).id

(* the same, on the relational backend alone                               *)
C2_ConcurrentGetOrCreatePsql == backend = "psql" => C2_ConcurrentGetOrCreate

-----------------------------------------------------------------------------
(* Concurrent requests on one ledger.  Every operation of ActivitiesList   *)
(* starts with self.repository.lock().await and keeps the guard until it   *)
(* returns; the report handlers lock the same mutex.  A thread is followed *)
(* one repository call at a time: an import is the importer run, the       *)
(* deletion phase and one add per activity of the batch.                   *)

\* mutant: the mutex is granted although it is held
TryLock_Barges(holder) == TRUE

\* Mutex::lock resolves only when nobody holds the mutex
TryLock(holder) == holder = 0

WriterOps == {"record", "update", "delete", "import"}
ReaderOps == {"activities", "weekly_report"}

\* what a thread can be asked to do: <<operation, argument>>
ThreadSources ==
    {<<Row(11, <<27, 2>>, TimeIn, TimeOut, "Dev", "Coding"),
       Row(11, <<1, 3>>, TimeIn, TimeOut, "Dev", "Coding")>>}

ThreadRequests ==
    {<<"record", Activity(0, 58, StartTime, NoneOpt, 1, "Coding")>>,
     <<"update", Activity(1, 59, StartTime, NoneOpt, 2, "Review")>>,
     <<"delete", 1>>}
    \cup {<<"import", [rows |-> r, year |-> y, mode |-> m]>> :
              r \in ThreadSources, y \in ImportYears, m \in ReplaceModes}
    \cup {<<o, ReportMonday>> : o \in ReaderOps}

\* an import that has applied its deletion and not yet its whole batch
MidImport(t) == threads[t].op = "import" /\ threads[t].pc = "insert"

BeginRequest(t, request) ==
    /\ threads[t].pc = "idle"
    /\ threads' = [u \in Threads |->
          IF u = t
          THEN [IdleThread EXCEPT !.pc = "acquire", !.op = request[1],
                                  !.arg = request[2],
                                  !.overlapped = \E o \in Threads \ {t} : Active(o)]
          ELSE IF Active(u) THEN [threads[u] EXCEPT !.overlapped = TRUE]
          ELSE threads[u]]
    /\ UNCHANGED <<backend, activities, categories, nextActivityId,
                   nextCategoryId, last, last2, locks>>

\* mutant: a reader does not wait for the mutex
Acquire_ReadersBarge(t) ==
    /\ threads[t].pc = "acquire"
    /\ threads[t].op \in ReaderOps \/ TryLock(locks.activities)
    /\ locks' = [locks EXCEPT !.activities = t]
    /\ threads' = [threads EXCEPT ![t].pc = "locked"]
    /\ UNCHANGED <<backend, activities, categories, nextActivityId,
                   nextCategoryId, last, last2>>

\* let repo = self.repository.lock().await
Acquire(t) ==
    /\ threads[t].pc = "acquire"
    /\ TryLock(locks.activities)
    /\ locks' = [locks EXCEPT !.activities = t]
    /\ threads' = [threads EXCEPT ![t].pc = "locked"]
    /\ UNCHANGED <<backend, activities, categories, nextActivityId,
                   nextCategoryId, last, last2>>

\* record, update, delete: one repository call under the guard
Write(t) ==
    /\ threads[t].pc = "locked"
    /\ threads[t].op \in {"record", "update", "delete"}
    /\ LET a == threads[t].arg
       IN  CASE threads[t].op = "record" ->
                 /\ nextActivityId <= MaxActivityId
                 /\ LET activity == [a EXCEPT !.id = nextActivityId]
                    IN  /\ activities' = add(activities, activity)
                        /\ threads' = [threads EXCEPT ![t].pc = "release",
                                                      ![t].res = Some(activity)]
                 /\ nextActivityId' = nextActivityId + 1
            [] threads[t].op = "update" ->
                 LET out == RepoUpdate(backend, activities, a)
                 IN  /\ activities' = out.acts
                     /\ threads' = [threads EXCEPT ![t].pc = "release",
                            ![t].res = Some(IF out.ok THEN <<"Ok">>
                                            ELSE <<"NotFound", a.id>>)]
                     /\ UNCHANGED nextActivityId
            [] threads[t].op = "delete" ->
                 LET out == RepoDelete(backend, activities, a)
                 IN  /\ activities' = out.acts
                     /\ threads' = [threads EXCEPT ![t].pc = "release",
                            ![t].res = Some(IF out.ok THEN <<"Ok">>
                                            ELSE <<"NotFound", a>>)]
                     /\ UNCHANGED nextActivityId
    /\ UNCHANGED <<backend, categories, nextCategoryId, last, last2, locks>>

\* activities(), get_by_id and the report constructors: one read under the
\* guard; torn records whether an import was half applied at that moment
Read(t) ==
    /\ threads[t].pc = "locked"
    /\ threads[t].op \in ReaderOps
    /\ threads' = [threads EXCEPT
          ![t].pc   = "release",
          ![t].res  = Some(IF threads[t].op = "activities"
                           THEN get_all(activities)
                           ELSE get_by_date_range(activities, threads[t].arg,
                                                  threads[t].arg + WeekEndOffset)),
          ![t].torn = \E u \in Threads \ {t} : MidImport(u)]
    /\ UNCHANGED <<backend, activities, categories, nextActivityId,
                   nextCategoryId, last, last2, locks>>

\* importer.import(reader, year).await?
RunImporter(t) ==
    /\ threads[t].pc = "locked"
    /\ threads[t].op = "import"
    /\ \E imp \in {CsvActivitiesImporter(backend, threads[t].arg.rows,
                                         threads[t].arg.year, categories,
                                         nextCategoryId, nextActivityId)} :
          /\ imp.freshAct <= MaxActivityId + 1
          /\ imp.freshCat <= MaxCategoryId + 1
          /\ categories' = imp.cats
          /\ nextCategoryId' = imp.freshCat
          /\ nextActivityId' = imp.freshAct
          /\ threads' = [threads EXCEPT
                ![t].pc     = IF imp.err THEN "release" ELSE "delete_phase",
                ![t].res    = IF imp.err THEN Some(<<"ParseError">>) ELSE NoneOpt,
                ![t].batch  = imp.activities,
                ![t].expect =
                    IF imp.err THEN activities
                    ELSE LET rep == ReplaceExisting(backend, activities,
                                        imp.activities, threads[t].arg.mode)
                         IN  IF rep.err THEN activities
                             ELSE AddAll(rep.acts, imp.activities)]
    /\ UNCHANGED <<backend, activities, last, last2, locks>>

\* the match on replace_existing
DeletePhase(t) ==
    /\ threads[t].pc = "delete_phase"
    /\ LET rep == ReplaceExisting(backend, activities, threads[t].batch,
                                  threads[t].arg.mode)
       IN  IF rep.err
           THEN /\ threads' = [threads EXCEPT ![t].pc = "release",
                       ![t].res = Some(<<"NoActivitiesToImport">>)]
                /\ UNCHANGED activities
           ELSE /\ activities' = rep.acts
                /\ threads' = [threads EXCEPT
                       ![t].pc  = IF threads[t].batch = <<>> THEN "release"
                                  ELSE "insert",
                       ![t].res = IF threads[t].batch = <<>> THEN Some(<<"Ok">>)
                                  ELSE NoneOpt]
    /\ UNCHANGED <<backend, categories, nextActivityId, nextCategoryId, last,
                   last2, locks>>

\* one turn of: for activity in activities { repo.add(activity).await }
InsertNext(t) ==
    /\ threads[t].pc = "insert"
    /\ activities' = add(activities, Head(threads[t].batch))
    /\ threads' = [threads EXCEPT
          ![t].batch = Tail(threads[t].batch),
          ![t].pc    = IF Tail(threads[t].batch) = <<>> THEN "release"
                       ELSE "insert",
          ![t].res   = IF Tail(threads[t].batch) = <<>> THEN Some(<<"Ok">>)
                       ELSE NoneOpt]
    /\ UNCHANGED <<backend, categories, nextActivityId, nextCategoryId, last,
                   last2, locks>>

\* the guard goes out of scope when the operation returns; the request is
\* over and the thread is free for the next one
Release(t) ==
    /\ threads[t].pc = "release"
    /\ locks.activities = t
    /\ locks' = [locks EXCEPT !.activities = 0]
    /\ threads' = [threads EXCEPT ![t] = IdleThread]
    /\ UNCHANGED <<backend, activities, categories, nextActivityId,
                   nextCategoryId, last, last2>>

NextThreads ==
    \/ \E t \in Threads, r \in ThreadRequests : BeginRequest(t, r)
    \/ \E t \in Threads : Acquire(t)
    \/ \E t \in Threads : Write(t)
    \/ \E t \in Threads : Read(t)
    \/ \E t \in Threads : RunImporter(t)
    \/ \E t \in Threads : DeletePhase(t)
    \/ \E t \in Threads : InsertNext(t)
    \/ \E t \in Threads : Release(t)

SpecThreads == Init /\ [][NextThreads]_vars

(* C11: an import's delete-then-insert sequence is atomic with respect to   *)
(* the other writers of the ledger: from the moment the importer has       *)
(* returned the batch until the last activity is inserted, the ledger is   *)
(* only what the import's own steps made it, so the import ends in the     *)
(* ledger that its one-step application to the ledger it found would give  *)
(* (the operations take effect in the serial order of their lock           *)
(* acquisitions).                                                          *)
C11_ImportAtomic ==
    \A t \in Threads :
        threads[t].op = "import" =>
            /\ threads[t].pc = "delete_phase" =>
                   LET rep == ReplaceExisting(backend, activities, threads[t].batch,
                                              threads[t].arg.mode)
                   IN  IF rep.err THEN activities = threads[t].expect
                       ELSE AddAll(rep.acts, threads[t].batch) = threads[t].expect
            /\ threads[t].pc = "insert" =>
                   AddAll(activities, threads[t].batch) = threads[t].expect
            /\ threads[t].pc = "release" => activities = threads[t].expect

\* an import that replaced a recorded activity has inserted the first part of
\* its batch while another writer waits for the lock
C11_Witness ==
    \E t, u \in Threads :
        /\ t # u
        /\ MidImport(t)
        /\ threads[t].arg.mode # "None"
        /\ Len(activities) >= 1
        /\ Len(threads[t].expect) = Len(threads[t].arg.rows)
        /\ nextActivityId > Len(threads[t].arg.rows) + 1
        /\ threads[u].op \in WriterOps
        /\ threads[u].pc = "acquire"

-----------------------------------------------------------------------------
(* Repository failures during an import.  Only the relational backend can  *)
(* fail (a statement returns a sqlx error); a fault names the repository   *)
(* call of the import that fails: the deletion, or the k-th add.           *)
(*   delete_all / delete_by_date_range: the error is mapped to             *)
(*     RepositoryError(e.to_string()) and returned with `?`;               *)
(*   add: returns (), and the relational add unwraps the statement's       *)
(*     result, so a failed INSERT panics inside repo.add.                  *)

DbMessage == "db error"

NoFault == <<"none", 0>>

Faults == {NoFault, <<"delete", 0>>} \cup {<<"insert", k>> : k \in 1..MaxRows}

\* repo.add of the batch, one by one, the k-th failing (k = 0: none fails)
RECURSIVE AddUntilFault(_, _, _)
AddUntilFault(acts, batch, k) ==
    IF batch = <<>> THEN [panic |-> FALSE, acts |-> acts]
    ELSE IF k = 1 THEN [panic |-> TRUE, acts |-> acts]
    ELSE AddUntilFault(add(acts, Head(batch)), Tail(batch),
                       IF k = 0 THEN 0 ELSE k - 1)

import_with_fault(b, acts, cats, freshCat, freshAct, rows, year, mode, fault) ==
    LET imp   == CsvActivitiesImporter(b, rows, year, cats, freshCat, freshAct)
        rep   == ReplaceExisting(b, acts, imp.activities, mode)
        fails == b = "psql"
        base  == [cats |-> imp.cats, freshCat |-> imp.freshCat,
                  freshAct |-> imp.freshAct, batch |-> imp.activities]
    IN  IF imp.err
        THEN base @@ [res |-> <<"ParseError">>, acts |-> acts, failed |-> "none"]
        ELSE IF rep.err
        THEN base @@ [res |-> <<"NoActivitiesToImport">>, acts |-> acts,
                      failed |-> "none"]
        ELSE IF fails /\ fault[1] = "delete" /\ mode # "None"
        THEN base @@ [res |-> <<"RepositoryError", DbMessage>>, acts |-> acts,
                      failed |-> "delete"]
        ELSE LET ins == AddUntilFault(rep.acts, imp.activities,
                            IF fails /\ fault[1] = "insert" THEN fault[2] ELSE 0)
             IN  IF ins.panic
                 THEN base @@ [res |-> <<"panic">>, acts |-> ins.acts,
                               failed |-> "insert"]
                 ELSE base @@ [res |-> <<"Ok">>, acts |-> ins.acts,
                               failed |-> "none"]

FaultSources == ThreadSources \cup {<<Head(r)>> : r \in ThreadSources}

ImportWithFault(rows, year, replace_existing, fault) ==
    \E out \in {import_with_fault(backend, activities, categories, nextCategoryId,
                                  nextActivityId, rows, year, replace_existing,
                                  fault)} :
        /\ out.freshAct <= MaxActivityId + 1
        /\ out.freshCat <= MaxCategoryId + 1
        /\ activities' = out.acts
        /\ categories' = out.cats
        /\ nextCategoryId' = out.freshCat
        /\ nextActivityId' = out.freshAct
        /\ last' = [op     |-> "import_with_fault",
                    before |-> activities,
                    arg    |-> [rows |-> rows, year |-> year,
                                mode |-> replace_existing, fault |-> fault,
                                batch |-> out.batch, failed |-> out.failed],
                    res    |-> out.res]
        /\ UNCHANGED <<threads, locks, backend, last2>>

NextFaults ==
    \/ \E e \in EndTimes : Record(58, StartTime, e, 1, "Coding")
    \/ \E r \in FaultSources, y \in ImportYears, m \in ReplaceModes, f \in Faults :
           ImportWithFault(r, y, m, f)

SpecFaults == Init /\ [][NextFaults]_vars

(* C13: a repository failure in the delete phase or in the insert phase of *)
(* an import is returned as RepositoryError with the backend's message     *)
(* (never a panic, never a silent success); after a failed deletion no     *)
(* activity of the batch is inserted, and in both cases the ledger is what *)
(* the repository calls that completed made it.                            *)
C13_RepositoryFailureReported ==
    (last.op = "import_with_fault" /\ last.arg.failed # "none") =>
        /\ last.res = <<"RepositoryError", DbMessage>>
        /\ last.arg.failed = "delete" => activities = last.before
        /\ last.arg.failed = "insert" =>
               activities =
                   AddAll(ReplaceExisting(backend, last.before, last.arg.batch,
                                          last.arg.mode).acts,
                          SubSeq(last.arg.batch, 1, last.arg.fault[2] - 1))

(* the same, for a failure of the deletion alone                           *)
C13_DeleteFailureReported ==
    (last.op = "import_with_fault" /\ last.arg.failed = "delete") =>
        /\ last.res = <<"RepositoryError", DbMessage>>
        /\ activities = last.before

-----------------------------------------------------------------------------
(* Concurrent explicit creation of categories.  AccountingCategoriesList:: *)
(* create locks the repository, looks for a category of that name among    *)
(* get_all(), and adds a new one if there is none, all under one guard.    *)

BeginCreate(t, category_name) ==
    /\ threads[t].pc \in {"idle", "done"}
    /\ threads' = [u \in Threads |->
          IF u = t
          THEN [IdleThread EXCEPT !.pc = "acquire_categories", !.op = "create",
                                  !.name = category_name,
                                  !.overlapped = \E o \in Threads \ {t} : Active(o)]
          ELSE IF Active(u) THEN [threads[u] EXCEPT !.overlapped = TRUE]
          ELSE threads[u]]
    /\ UNCHANGED <<backend, activities, categories, nextActivityId,
                   nextCategoryId, last, last2, locks>>

\* mutant: the repository mutex is granted although it is held
AcquireCategories_Barges(t) ==
    /\ threads[t].pc = "acquire_categories"
    /\ locks' = [locks EXCEPT !.categories = t]
    /\ threads' = [threads EXCEPT ![t].pc = "check"]
    /\ UNCHANGED <<backend, activities, categories, nextActivityId,
                   nextCategoryId, last, last2>>

\* let mut repo = self.repository.lock().unwrap()
AcquireCategories(t) ==
    /\ threads[t].pc = "acquire_categories"
    /\ TryLock(locks.categories)
    /\ locks' = [locks EXCEPT !.categories = t]
    /\ threads' = [threads EXCEPT ![t].pc = "check"]
    /\ UNCHANGED <<backend, activities, categories, nextActivityId,
                   nextCategoryId, last, last2>>

\* repo.get_all().iter().find(|category| category.name() == category_name)
CheckExists(t) ==
    /\ threads[t].pc = "check"
    /\ LET exists == CountNamed(get_all(categories), threads[t].name) > 0
       IN  threads' = [threads EXCEPT
               ![t].expect = categories,
               ![t].pc  = IF exists THEN "release_categories" ELSE "add_category",
               ![t].res = IF exists
                          THEN Some(<<"AccountingCategoryAlreadyExists",
                                      threads[t].name>>)
                          ELSE NoneOpt]
    /\ UNCHANGED <<backend, activities, categories, nextActivityId,
                   nextCategoryId, last, last2, locks>>

\* AccountingCategory::new(..); repo.add(..); Ok(accounting_category)
AddCategory(t) ==
    /\ threads[t].pc = "add_category"
    /\ nextCategoryId <= MaxCategoryId
    /\ LET accounting_category == AccountingCategory(nextCategoryId, threads[t].name)
       IN  /\ categories' = CategoryAdd(categories, accounting_category)
           /\ threads' = [threads EXCEPT
                  ![t].pc  = "release_categories",
                  ![t].res = Some(<<"Ok", accounting_category>>)]
    /\ nextCategoryId' = nextCategoryId + 1
    /\ UNCHANGED <<backend, activities, nextActivityId, last, last2, locks>>

ReleaseCategories(t) ==
    /\ threads[t].pc = "release_categories"
    /\ locks.categories = t
    /\ locks' = [locks EXCEPT !.categories = 0]
    /\ threads' = [threads EXCEPT ![t].pc = "done"]
    /\ UNCHANGED <<backend, activities, categories, nextActivityId,
                   nextCategoryId, last, last2>>

NextCreate ==
    \/ \E t \in Threads, n \in CategoryNames : BeginCreate(t, n)
    \/ \E t \in Threads : AcquireCategories(t)
    \/ \E t \in Threads : CheckExists(t)
    \/ \E t \in Threads : AddCategory(t)
    \/ \E t \in Threads : ReleaseCategories(t)

SpecCreate == Init /\ [][NextCreate]_vars

(* C14: create(name) on a repository that holds a category of that name    *)
(* fails with AlreadyExists(name) and leaves the list unchanged; otherwise *)
(* it appends exactly one category with a fresh identifier and that name   *)
(* and returns it; check and insert happen under one lock acquisition, so  *)
(* two concurrent create(name) calls never both succeed.                   *)
CreateReturned(t) ==
    threads[t].op = "create" /\ threads[t].pc \in {"release_categories", "done"}

CreateOk(t) == CreateReturned(t) /\ Unwrap(threads[t].res)[1] = "Ok"

C14_CreateRejectsDuplicates ==
    /\ \A t \in Threads :
           CreateReturned(t) =>
               LET found == threads[t].expect
                   name  == threads[t].name
                   res   == Unwrap(threads[t].res)
                   atReturn == threads[t].pc = "release_categories"
               IN  IF CountNamed(found, name) > 0
                   THEN /\ res = <<"AccountingCategoryAlreadyExists", name>>
                        /\ atReturn => categories = found
                   ELSE /\ res[1] = "Ok"
                        /\ res[2].name = name
                        /\ res[2].id \notin Ids(found)
                        /\ atReturn => categories = Append(found, res[2])
    /\ \A t, u \in Threads :
           (t # u /\ CreateOk(t) /\ CreateOk(u)) => threads[t].name # threads[u].name

\* two overlapping calls with the same name have returned: one created the
\* category, the other was rejected
C14_Witness ==
    \E t, u \in Threads :
        /\ t # u
        /\ CreateOk(t) /\ CreateReturned(u) /\ ~CreateOk(u)
        /\ threads[t].overlapped /\ threads[u].overlapped
        /\ threads[t].name = threads[u].name
        /\ CountNamed(categories, threads[t].name) = 1

-----------------------------------------------------------------------------
(* C15: after any sequence of category create, update (rename), delete and *)
(* get_or_create_by_name operations no two stored categories have the same *)
(* name.                                                                   *)
C15_UniqueNames ==
    \A i, j \in 1..Len(categories) :
        categories[i].name = categories[j].name => i = j

(* the same, as long as no category was renamed                            *)
C15_UniqueNamesWithoutRename ==
    [][last'.op # "update_category" => (C15_UniqueNames => C15_UniqueNames')]_vars

-----------------------------------------------------------------------------
(* C16: the week window of a weekly report is half-open: week_end is       *)
(* week_start + 7 days and every activity of the report has a date d with  *)
(* week_start <= d < week_end; an activity dated week_end is not part of   *)
(* the report.                                                             *)
C16_HalfOpenWeek ==
    last.op = "weekly_report" =>
        LET r == last.res
        IN  /\ r.week_end = r.week_start + 7
            /\ \A i \in 1..Len(r.activities) :
                   /\ r.week_start <= r.activities[i].date
                   /\ r.activities[i].date < r.week_end

(* what the report does guarantee: the window includes week_end            *)
C16_ClosedWeek ==
    last.op = "weekly_report" =>
        LET r == last.res
        IN  /\ r.week_end = r.week_start + 7
            /\ \A i \in 1..Len(activities) :
                   (r.week_start <= activities[i].date /\ activities[i].date <= r.week_end)
                       <=> \E k \in 1..Len(r.activities) : r.activities[k] = activities[i]

-----------------------------------------------------------------------------
(* Activities and the categories they reference: recording and importing   *)
(* activities, creating and deleting categories.                           *)

StoredCategoryIds == {categories[i].id : i \in 1..Len(categories)}

NextReferences ==
    \/ \E n \in CategoryNames : CreateCategory(n)
    \/ \E c \in StoredCategoryIds : Record(58, StartTime, NoneOpt, c, "Coding")
    \/ \E r \in FaultSources, y \in ImportYears : Import(r, y, "None")
    \/ \E id \in 1..MaxCategoryId : DeleteCategory(id)

SpecReferences == Init /\ [][NextReferences]_vars

(* C17: a category delete never removes a category whose identifier is the *)
(* category of an activity currently in the ledger.                        *)
C17_NoDeleteWhileReferenced ==
    ( /\ last.op = "delete_category"
      /\ PositionById(last.before, last.arg) # 0
      /\ PositionById(categories, last.arg) = 0 )
    => \A i \in 1..Len(activities) :
           activities[i].accounting_category_id # last.arg

-----------------------------------------------------------------------------
(* C18: the in-memory and the relational backend honor identical           *)
(* contracts: from the same stored state the same call returns the same    *)
(* result (NotFound for update and delete of an absent identifier          *)
(* included) and leaves the same stored state, so every sequence of calls  *)
(* does.                                                                   *)
C18_BackendsAgree ==
    /\ last.op = "update" =>
           InMemoryUpdate(last.before, last.arg) = PsqlUpdate(last.before, last.arg)
    /\ last.op = "delete" =>
           InMemoryDelete(last.before, last.arg) = PsqlDelete(last.before, last.arg)
    /\ last.op = "record" =>
           /\ get_all(activities) = add(last.before, last.arg)
           /\ InMemoryDeleteAll(activities) = PsqlDeleteAll(activities)

(* the same, for calls on an identifier that is stored                     *)
C18_BackendsAgreeOnStored ==
    /\ (last.op = "update" /\ last.arg.id \in Ids(last.before)) =>
           InMemoryUpdate(last.before, last.arg) = PsqlUpdate(last.before, last.arg)
    /\ (last.op = "delete" /\ last.arg \in Ids(last.before)) =>
           InMemoryDelete(last.before, last.arg) = PsqlDelete(last.before, last.arg)

-----------------------------------------------------------------------------
(* C19: the daily report lists exactly the ledger's activities of that     *)
(* date, in repository order, and its total_duration is the sum of their   *)
(* durations, an activity without end_time contributing zero.              *)
OnDate(acts, date) == {i \in 1..Len(acts) : acts[i].date = date}

\* the k-th smallest element of a set of indices
Nth(S, k) == CHOOSE i \in S : Cardinality({j \in S : j <= i}) = k

C19_DailyReport ==
    last.op = "daily_report" =>
        LET r   == last.res
            idx == OnDate(activities, last.arg)
        IN  /\ r.date = last.arg
            /\ Len(r.activities) = Cardinality(idx)
            /\ \A k \in 1..Len(r.activities) :
                   r.activities[k] = activities[Nth(idx, k)]
            /\ r.total_duration =
                   SumSeq([k \in 1..Len(r.activities) |->
                              IF r.activities[k].end_time = NoneOpt THEN 0
                              ELSE Unwrap(r.activities[k].end_time)
                                       - r.activities[k].start_time])

\* a report of two activities, one of them open-ended, from a ledger that
\* also holds an activity of another date
C19_Witness ==
    /\ last.op = "daily_report"
    /\ Len(last.res.activities) = 2
    /\ Len(activities) = 3
    /\ \E k \in 1..2 : last.res.activities[k].end_time = NoneOpt
    /\ last.res.total_duration > 0

-----------------------------------------------------------------------------
(* Durations.  Activities are recorded with start and end times a second   *)
(* apart, an hour apart, equal, and with the end before the start.         *)

DurationStarts == {StartTime, StartTime + 3600}

DurationEnds == {NoneOpt, Some(StartTime + 1), Some(StartTime + 3600)}

NextDurations ==
    \/ \E st \in DurationStarts, e \in DurationEnds :
           Record(ReportMonday, st, e, 1, "Coding")
    \/ GenerateWeeklyReport(ReportMonday)
    \/ GenerateDailyReport(ReportMonday)

SpecDurations == Init /\ [][NextDurations]_vars

(* C20: duration() is zero when end_time is absent and end_time minus      *)
(* start_time otherwise, in whole seconds; for an activity whose end_time  *)
(* is on or after its start_time it is not negative, and so are the report *)
(* totals built from such activities.                                      *)
WellTimed(a) == a.end_time = NoneOpt \/ Unwrap(a.end_time) >= a.start_time

C20_Duration ==
    /\ \A i \in 1..Len(activities) :
           LET a == activities[i]
           IN  /\ a.end_time = NoneOpt => duration(a) = 0
               /\ a.end_time # NoneOpt =>
                      duration(a) + a.start_time = Unwrap(a.end_time)
               /\ WellTimed(a) => duration(a) >= 0
    /\ (/\ last.op \in {"weekly_report", "daily_report"}
        /\ \A k \in 1..Len(last.res.activities) : WellTimed(last.res.activities[k]))
       => last.res.total_duration >= 0

\* a weekly report with a positive total over an open-ended activity, one of
\* one second and one of zero length
C20_Witness ==
    /\ last.op = "weekly_report"
    /\ last.res.total_duration = 1
    /\ Len(last.res.activities) = 3
    /\ \E k \in 1..3 : last.res.activities[k].end_time = NoneOpt
    /\ \E k \in 1..3 : /\ last.res.activities[k].end_time # NoneOpt
                       /\ Unwrap(last.res.activities[k].end_time) =
                              last.res.activities[k].start_time

\* an activity that ends before it starts has a negative duration
C20_WitnessNegative ==
    \E i \in 1..Len(activities) : duration(activities[i]) < 0

-----------------------------------------------------------------------------
(* Imports of a few chosen sources into a ledger that also receives        *)
(* recorded activities: two rows of one category, one row, two rows of two *)
(* categories, and sources whose second row has a malformed date or time.  *)

DevRow(date) == Row(11, date, TimeIn, TimeOut, "Dev", "Coding")

ReconcileSources ==
    {<<DevRow(<<27, 2>>), DevRow(<<1, 3>>)>>,
     <<DevRow(<<27, 2>>)>>,
     <<DevRow(<<27, 2>>), Row(11, <<1, 3>>, TimeIn, TimeOut, "Meeting", "Review")>>,
     <<DevRow(<<27, 2>>), Row(11, <<1, 3>>, BadTime, TimeOut, "Meeting", "Review")>>,
     <<DevRow(<<27, 2>>), Row(11, <<1, 3>>, TimeIn, BadTime, "Meeting", "Review")>>,
     <<DevRow(<<27, 2>>), Row(11, <<29, 2>>, TimeIn, TimeOut, "Meeting", "Review")>>,
     <<DevRow(<<27, 2>>), Row(300, <<1, 3>>, TimeIn, TimeOut, "Meeting", "Review")>>}

NextImports ==
    \/ Record(58, StartTime, ParseTime(TimeOut), 1, "Coding")
    \/ \E rows \in ReconcileSources, y \in ImportYears, m \in ReplaceModes :
          Import(rows, y, m)

SpecImports == Init /\ [][NextImports]_vars

(* C21: in an import with mode All or ImportDateRange the deletion is      *)
(* complete before the first activity of the batch is inserted: after a    *)
(* successful import every activity of the batch is in the ledger, under a *)
(* new identifier, although its date lies inside the deleted range.        *)
C21_BatchSurvivesDeletion ==
    (ImportDone("All") \/ ImportDone("ImportDateRange")) =>
        LET rows == last.arg.rows
            n    == Len(activities) - Len(rows)
        IN  /\ n >= 0
            /\ \A k \in 1..Len(rows) :
                   /\ RowActivityMatches(activities[n + k], rows[k], last.arg.year)
                   /\ activities[n + k].id \notin Ids(last.before)

\* a ledger that held an earlier import of the first row is replaced by the
\* two rows of the source: the old copy is gone, the new one is there
C21_Witness ==
    /\ ImportDone("ImportDateRange")
    /\ Len(last.arg.rows) = 2
    /\ Len(last.before) = 1
    /\ RowActivityMatches(last.before[1], last.arg.rows[1], last.arg.year)
    /\ last.before[1].id \notin Ids(activities)
    /\ Len(activities) = 2

(* C22: import with ReplaceMode::None is append-only: after a successful   *)
(* import the ledger is the previous ledger, unchanged and in order,       *)
(* followed by the batch in batch order, also when an existing activity    *)
(* has the date or the content of an imported one.                         *)
C22_NoneAppendsOnly ==
    ImportDone("None") =>
        LET rows == last.arg.rows
            n    == Len(last.before)
        IN  /\ Len(activities) = n + Len(rows)
            /\ SubSeq(activities, 1, n) = last.before
            /\ \A k \in 1..Len(rows) :
                   /\ RowActivityMatches(activities[n + k], rows[k], last.arg.year)
                   /\ activities[n + k].id \notin Ids(last.before)

\* the ledger already held an activity with the content of the first row and
\* one dated between the rows; both are still there after the import
C22_Witness ==
    /\ ImportDone("None")
    /\ Len(last.before) = 2
    /\ \E j \in 1..2 : RowActivityMatches(last.before[j], last.arg.rows[1], last.arg.year)
    /\ \E j \in 1..2 : last.before[j].date = 58
    /\ Len(activities) = 3

(* C23: import reconciliation maps category names onto stable identifiers: *)
(* after a successful import every activity produced from a row carries    *)
(* the identifier of the stored category whose name is the row's category  *)
(* name, rows with equal category names get the same identifier, and no    *)
(* name is stored twice.                                                   *)
C23_StableCategoryIds ==
    (last.op = "import" /\ last.res = <<"Ok">>) =>
        LET rows == last.arg.rows
            n    == Len(activities) - Len(rows)
        IN  /\ \A k \in 1..Len(rows) :
                   /\ CountNamed(categories, rows[k].pam_category) = 1
                   /\ \E i \in 1..Len(categories) :
                          /\ categories[i].name = rows[k].pam_category
                          /\ categories[i].id = activities[n + k].accounting_category_id
            /\ \A k, j \in 1..Len(rows) :
                   rows[k].pam_category = rows[j].pam_category =>
                       activities[n + k].accounting_category_id =
                           activities[n + j].accounting_category_id

(* the same, on the relational backend alone                               *)
C23_StableCategoryIdsPsql == backend = "psql" => C23_StableCategoryIds

(* C24: daily_durations_per_category of a weekly report has exactly 7      *)
(* entries, for week_start, week_start+1, ..., week_start+6 in that order; *)
(* the entry of a day maps each category to the sum of the durations of    *)
(* the report's activities on that day with that category, and a day       *)
(* without activities has an empty mapping.                                *)
C24_DailyDurationsPerCategory ==
    last.op = "weekly_report" =>
        LET r     == last.res
            daily == r.daily_durations_per_category
        IN  /\ Len(daily) = 7
            /\ \A i \in 1..Len(daily) :
                   LET today == SelectSeq(r.activities,
                                         LAMBDA a : a.date = r.week_start + (i - 1))
                   IN  /\ daily[i][1] = r.week_start + (i - 1)
                       /\ DOMAIN daily[i][2] =
                              {today[k].accounting_category_id : k \in 1..Len(today)}
                       /\ \A c \in DOMAIN daily[i][2] :
                              daily[i][2][c] = CategoryTotal(today, c)
                       /\ today = <<>> => daily[i][2] = EmptyMap

\* two activities of one category on the last day of the week, nothing on
\* the first day
C24_Witness ==
    /\ last.op = "weekly_report"
    /\ LET r     == last.res
           daily == r.daily_durations_per_category
       IN  /\ daily[1][2] = EmptyMap
           /\ \E c \in DOMAIN daily[7][2] :
                  \E k, j \in 1..Len(r.activities) :
                      /\ k # j
                      /\ r.activities[k].date = r.week_start + 6
                      /\ r.activities[j].date = r.week_start + 6
                      /\ r.activities[k].accounting_category_id = c
                      /\ r.activities[j].accounting_category_id = c
                      /\ duration(r.activities[k]) > 0
                      /\ duration(r.activities[j]) > 0
                      /\ daily[7][2][c] = duration(r.activities[k]) + duration(r.activities[j])

-----------------------------------------------------------------------------
(* The date queries of the activities repository, on a ledger filled by    *)
(* record.                                                                 *)

GetByDate(date) ==
    /\ last' = [op |-> "get_by_date", before |-> activities, arg |-> date,
                res |-> get_by_date(activities, date)]
    /\ UNCHANGED <<threads, locks, backend, activities, categories, nextActivityId,
                   nextCategoryId, last2>>

GetByDateRange(start, end) ==
    /\ last' = [op |-> "get_by_date_range", before |-> activities,
                arg |-> <<start, end>>,
                res |-> get_by_date_range(activities, start, end)]
    /\ UNCHANGED <<threads, locks, backend, activities, categories, nextActivityId,
                   nextCategoryId, last2>>

NextQueries ==
    \/ \E d \in Dates : Record(d, StartTime, NoneOpt, 1, "Coding")
    \/ \E d \in Dates : GetByDate(d)
    \/ \E s, e \in Dates : GetByDateRange(s, e)

SpecQueries == Init /\ [][NextQueries]_vars

\* res is the subsequence of acts at the indices S, in the order of acts
IsSelection(res, acts, S) ==
    /\ Len(res) = Cardinality(S)
    /\ \A k \in 1..Len(res) : res[k] = acts[Nth(S, k)]

(* C25: get_by_date(d) returns exactly the stored activities with date = d *)
(* and get_by_date_range(start, end) exactly those with                    *)
(* start <= date <= end, each in repository order; for start > end the     *)
(* result is empty, and neither call changes the stored state.             *)
C25_DateQueries ==
    /\ last.op = "get_by_date" =>
           /\ IsSelection(last.res, activities, OnDate(activities, last.arg))
           /\ activities = last.before
    /\ last.op = "get_by_date_range" =>
           /\ IsSelection(last.res, activities,
                          {i \in 1..Len(activities) :
                              /\ last.arg[1] <= activities[i].date
                              /\ activities[i].date <= last.arg[2]})
           /\ last.arg[1] > last.arg[2] => last.res = <<>>
           /\ activities = last.before

\* a range query over two days of a ledger with activities on the first
\* day, on the last day and outside the range
C25_Witness ==
    /\ last.op = "get_by_date_range"
    /\ last.arg[1] < last.arg[2]
    /\ Len(activities) = 3
    /\ Len(last.res) = 2
    /\ last.res[1].date = last.arg[2]
    /\ last.res[2].date = last.arg[1]

\* a range whose start is after its end, on a ledger with activities on both
C25_WitnessEmptyRange ==
    /\ last.op = "get_by_date_range"
    /\ last.arg[1] > last.arg[2]
    /\ \E i \in 1..Len(activities) : activities[i].date = last.arg[1]
    /\ \E i \in 1..Len(activities) : activities[i].date = last.arg[2]

(* C26: delete_by_date_range(start, end) removes exactly the stored        *)
(* activities with start <= date <= end, returns their number as the       *)
(* count, and leaves all other activities unchanged and in their previous  *)
(* relative order; the ledger size decreases by exactly the returned       *)
(* count.                                                                  *)
C26_DeleteByDateRange ==
    last.op = "delete_by_date_range" =>
        LET inside == {i \in 1..Len(last.before) :
                          /\ last.arg[1] <= last.before[i].date
                          /\ last.before[i].date <= last.arg[2]}
        IN  /\ last.res = <<"Ok", Cardinality(inside)>>
            /\ IsSelection(activities, last.before, (1..Len(last.before)) \ inside)
            /\ Len(activities) = Len(last.before) - last.res[2]

\* two of three activities are removed, one of them dated the end of the
\* range, and the one before the range stays
C26_Witness ==
    /\ last.op = "delete_by_date_range"
    /\ last.arg[1] < last.arg[2]
    /\ Len(last.before) = 3
    /\ last.res = <<"Ok", 2>>
    /\ \E i \in 1..3 : last.before[i].date = last.arg[2]
    /\ Len(activities) = 1
    /\ activities[1].date < last.arg[1]

-----------------------------------------------------------------------------
(* The ledger under every operation of ActivitiesList that changes it:     *)
(* record, update, delete, delete_by_date_range and import.                *)

LedgerImportSources == {<<DevRow(<<27, 2>>)>>, <<DevRow(<<27, 2>>), DevRow(<<1, 3>>)>>}

NextLedger ==
    \/ \E d \in {57, 58} : Record(d, StartTime, NoneOpt, 1, "Coding")
    \/ \E id \in 1..MaxActivityId :
          Update(Activity(id, 59, StartTime, NoneOpt, 2, "Review"))
    \/ \E id \in 1..MaxActivityId : Delete(id)
    \/ \E s \in {57, 58} : DeleteByDateRange(s, 58)
    \/ \E rows \in LedgerImportSources, y \in ImportYears, m \in ReplaceModes :
          Import(rows, y, m)

SpecLedger == Init /\ [][NextLedger]_vars

(* C27: activity identifiers stay unique in the ledger: after any sequence *)
(* of record, update, delete, delete_by_date_range and import operations   *)
(* no two stored activities share an identifier.                           *)
C27_UniqueActivityIds ==
    \A i, j \in 1..Len(activities) :
        activities[i].id = activities[j].id => i = j

\* an update has just succeeded on a ledger that holds an imported activity
\* and a recorded one besides the updated one
C27_Witness ==
    /\ last.op = "update"
    /\ last.res = <<"Ok">>
    /\ Len(activities) = 3
    /\ \E i \in 1..3 : activities[i].end_time # NoneOpt
    /\ \E i \in 1..3 : activities[i].end_time = NoneOpt /\ activities[i].task = "Coding"
    /\ \E i \in 1..3 : activities[i] = last.arg

-----------------------------------------------------------------------------
(* Lock acquisition.  A request takes its mutexes one after the other and  *)
(* gives them back in reverse order as its guards go out of scope: the     *)
(* handlers of the activities service lock the service state, the          *)
(* operations of ActivitiesList the activities repository, the CSV         *)
(* importer the category repository once all rows are deserialized, the    *)
(* report handlers the activities repository, and the operations of        *)
(* AccountingCategoriesList the category repository.                       *)

LedgerOps == {"record", "update", "delete"}
ReportOps == {"weekly_report", "daily_report"}
CategoryOps == {"create_category", "update_category", "delete_category"}
\* an import whose source fails to deserialize returns before the importer
\* locks the category repository
ImportOps == {"import", "import_unreadable"}
LockOps == LedgerOps \cup ReportOps \cup CategoryOps \cup ImportOps

\* mutant: an operation on categories goes on to lock the activities
\* repository
LockOrder_CategoryThenActivities(op) ==
    IF op = "import" THEN <<"service", "activities", "categories">>
    ELSE IF op \in LedgerOps \cup {"import_unreadable"} THEN <<"service", "activities">>
    ELSE IF op \in ReportOps THEN <<"activities">>
    ELSE <<"categories", "activities">>

\* the mutexes an operation locks, in the order it locks them
LockOrder(op) ==
    IF op = "import" THEN <<"service", "activities", "categories">>
    ELSE IF op \in LedgerOps \cup {"import_unreadable"} THEN <<"service", "activities">>
    ELSE IF op \in ReportOps THEN <<"activities">>
    ELSE <<"categories">>

Held(t) == {l \in DOMAIN locks : locks[l] = t}

\* the mutex thread t is about to lock, if any
Wanted(t) ==
    LET order == LockOrder(threads[t].op)
    IN  IF threads[t].pc = "acquiring" /\ Cardinality(Held(t)) < Len(order)
        THEN {order[Cardinality(Held(t)) + 1]}
        ELSE {}

BeginOp(t, op) ==
    /\ threads[t].pc = "idle"
    /\ threads' = [threads EXCEPT ![t] = [IdleThread EXCEPT !.pc = "acquiring",
                                                        !.op = op]]
    /\ UNCHANGED <<backend, activities, categories, nextActivityId,
                   nextCategoryId, last, last2, locks>>

\* Mutex::lock().await resolves
AcquireNext(t) ==
    \E l \in Wanted(t) :
        /\ locks[l] = 0
        /\ locks' = [locks EXCEPT ![l] = t]
        /\ UNCHANGED <<backend, activities, categories, nextActivityId,
                       nextCategoryId, last, last2, threads>>

\* the operation runs under its guards
Complete(t) ==
    /\ threads[t].pc = "acquiring"
    /\ Wanted(t) = {}
    /\ threads' = [threads EXCEPT ![t].pc = "releasing"]
    /\ UNCHANGED <<backend, activities, categories, nextActivityId,
                   nextCategoryId, last, last2, locks>>

\* the guard taken last is dropped first; the request returns with the
\* last guard
ReleaseNext(t) ==
    /\ threads[t].pc = "releasing"
    /\ Held(t) # {}
    /\ locks' = [locks EXCEPT ![LockOrder(threads[t].op)[Cardinality(Held(t))]] = 0]
    /\ threads' = IF Cardinality(Held(t)) = 1
                  THEN [threads EXCEPT ![t] = IdleThread]
                  ELSE threads
    /\ UNCHANGED <<backend, activities, categories, nextActivityId,
                   nextCategoryId, last, last2>>

NextLocks ==
    \E t \in Threads :
        \/ \E op \in LockOps : BeginOp(t, op)
        \/ AcquireNext(t)
        \/ Complete(t)
        \/ ReleaseNext(t)

SpecLocks == Init /\ [][NextLocks]_vars

\* the runtime keeps polling a task that can run, and tokio's mutex hands
\* the lock to its waiters in the order they asked for it
SpecLocksFair ==
    /\ SpecLocks
    /\ \A t \in Threads :
          /\ SF_vars(AcquireNext(t))
          /\ WF_vars(Complete(t))
          /\ WF_vars(ReleaseNext(t))

\* thread t is not waiting for a mutex another thread holds
CanStep(t) ==
    /\ Active(t)
    /\ \A l \in Wanted(t) : locks[l] = 0

LockOrderRespected ==
    /\ \A t \in Threads :
           ~(locks.categories = t /\ Wanted(t) = {"activities"})
    /\ \A t \in Threads :
           (threads[t].op \in ImportOps /\ locks.categories = t) => locks.activities = t
    /\ (\E t \in Threads : Active(t)) => \E t \in Threads : CanStep(t)

-----------------------------------------------------------------------------
\* the durations of category c summed over the daily entries of report r
DailySum(r, c) ==
    LET daily == r.daily_durations_per_category
    IN  SumSeq([i \in 1..Len(daily) |->
                   IF c \in DOMAIN daily[i][2] THEN daily[i][2][c] ELSE 0])

(* C29: the two breakdowns of a weekly report agree: for every category c  *)
(* the sum of c's durations over the 7 entries of                          *)
(* daily_durations_per_category equals c's entry in duration_per_category, *)
(* and the sum of all per-day, per-category durations equals               *)
(* total_duration.                                                         *)
C29_BreakdownsAgree ==
    last.op = "weekly_report" =>
        LET r   == last.res
            dpc == r.duration_per_category
        IN  /\ \A k \in 1..Len(dpc) : DailySum(r, dpc[k][1]) = dpc[k][2]
            /\ SumSeq([k \in 1..Len(dpc) |-> DailySum(r, dpc[k][1])]) = r.total_duration

(* the breakdowns do agree on a ledger without an activity dated           *)
(* week_start + 7                                                          *)
C29_BreakdownsAgreeWithinWeek ==
    (/\ last.op = "weekly_report"
     /\ \A i \in 1..Len(activities) : activities[i].date # last.arg + 7)
    => C29_BreakdownsAgree

-----------------------------------------------------------------------------
\* the first row of the source that is malformed
FirstMalformed(rows, year) ==
    CHOOSE k \in 1..Len(rows) :
        /\ RowMalformed(rows[k], year)
        /\ \A j \in 1..(k - 1) : ~RowMalformed(rows[j], year)

(* C30: a failed import does not roll back category reconciliation: when   *)
(* import fails with ParseError at row k, the category repository holds a  *)
(* category for every category name of rows 1..k-1, and also for row k's   *)
(* name when its date was valid and only its time was malformed, while the *)
(* ledger is unchanged; a row whose date is malformed creates no category  *)
(* for that row.                                                           *)
C30_FailedImportKeepsCategories ==
    (last.op = "import" /\ last.res = <<"ParseError">>) =>
        LET rows == last.arg.rows
            year == last.arg.year
            k    == FirstMalformed(rows, year)
            name == rows[k].pam_category
        IN  /\ activities = last.before
            /\ \A j \in 1..(k - 1) : CountNamed(categories, rows[j].pam_category) >= 1
            /\ ( /\ rows[k].cw \in 0..255
                 /\ convert_date_format(rows[k].date, year) # NoneOpt )
               => CountNamed(categories, name) >= 1
            /\ ( /\ convert_date_format(rows[k].date, year) = NoneOpt
                 /\ CountNamed(last.arg.categories, name) = 0
                 /\ \A j \in 1..(k - 1) : rows[j].pam_category # name )
               => CountNamed(categories, name) = 0

(* the same on the relational backend, for a source whose rows all         *)
(* deserialize, so that the failure is one of the per-record loop          *)
C30_FailedImportKeepsCategoriesPsql ==
    (/\ backend = "psql"
     /\ last.op = "import"
     /\ CsvDeserialize(last.arg.rows) # NoneOpt)
        => C30_FailedImportKeepsCategories

(* a source with a row that does not deserialize fails before any row is   *)
(* processed: the category repository is as it was                         *)
C30_UnreadableSourceKeepsCategories ==
    (last.op = "import" /\ CsvDeserialize(last.arg.rows) = NoneOpt) =>
        /\ last.res = <<"ParseError">>
        /\ categories = last.arg.categories
        /\ activities = last.before

=============================================================================
